---- MODULE Spec2Model ----
(***************************************************************************)
(* OpenAIChatCompleteJSONToStreamResponseTransform                         *)
(* (src/providers/openai/chatComplete.ts): a complete chat-completion      *)
(* response is turned into the array of server-sent-event chunks a         *)
(* streaming client would have received.                                   *)
(*                                                                         *)
(* JavaScript values are modelled as follows.                              *)
(*   undefined, null      Undefined, Null                                  *)
(*   number n             Num(n)                                           *)
(*   string               Str(s), s a sequence of character codes, or      *)
(*                        Lit("...") for the fixed literals of the code    *)
(*   array                Arr(items)                                       *)
(*   object               a record; a property that is not set is a key    *)
(*                        that is not in the record's DOMAIN               *)
(* The primitive values and arrays carry the key "js"; objects never do.   *)
(***************************************************************************)
EXTENDS Integers, Sequences, FiniteSets, TLC

VARIABLES
    response,            \* the first argument
    provider,            \* the second argument
    streamChunkTemplate, \* the envelope shared by every chunk
    streamChunkArray,    \* the array that is returned
    index,               \* the position of the choice being processed
    pc                   \* the section of the function that runs next

vars == <<response, provider, streamChunkTemplate, streamChunkArray, index, pc>>

----------------------------------------------------------------------------
(* Bounds of the inputs. *)

MaxChoices == 2
MaxBlocks == 2
MaxToolCalls == 2
MaxSlices == 2

----------------------------------------------------------------------------
(* JavaScript values. *)

Undefined == [js |-> "undefined"]
Null == [js |-> "null"]
Num(n) == [js |-> "number", value |-> n]
Str(s) == [js |-> "string", value |-> s]
Lit(s) == [js |-> "string", lit |-> s]
EmptyString == Str(<<>>)
Arr(items) == [js |-> "array", items |-> items]
EmptyObject == [k \in {} |-> Undefined]

IsString(v) == "js" \in DOMAIN v /\ v.js = "string"
IsArray(v) == "js" \in DOMAIN v /\ v.js = "array"
IsObject(v) == "js" \notin DOMAIN v

\* ToBoolean: undefined, null, 0 and the empty string are falsy; every
\* object and every array (the empty one too) is truthy.
Truthy(v) ==
    IF IsObject(v) THEN TRUE
    ELSE CASE v.js = "undefined" -> FALSE
           [] v.js = "null" -> FALSE
           [] v.js = "number" -> v.value # 0
           [] v.js = "string" -> IF "value" \in DOMAIN v THEN Len(v.value) > 0 ELSE v.lit # ""
           [] OTHER -> TRUE

\* obj.key, and obj?.key when obj is undefined
Get(obj, key) ==
    IF IsObject(obj) /\ key \in DOMAIN obj THEN obj[key] ELSE Undefined

\* a || b
Or(a, b) == IF Truthy(a) THEN a ELSE b

\* ...(cond && {key: value})
SpreadIf(cond, obj) == IF Truthy(cond) THEN obj ELSE EmptyObject

\* delete obj.key
Delete(obj, key) == [k \in DOMAIN obj \ {key} |-> obj[k]]

\* Number.isInteger
IsInteger(v) == "js" \in DOMAIN v /\ v.js = "number"

Min(a, b) == IF a < b THEN a ELSE b

\* JSSlice with the window one character short: s.slice(from, to - 1)
JSSliceExclusive(s, from, to) == SubSeq(s, from + 1, Min(to - 1, Len(s)))

\* String.prototype.slice(from, to), 0 <= from <= to
JSSlice(s, from, to) == SubSeq(s, from + 1, Min(to, Len(s)))

\* JSON.stringify: a property whose value is undefined is left out, an
\* undefined array element becomes null, everything else is kept as it is.
RECURSIVE JSONStringify(_)
JSONStringify(v) ==
    IF IsObject(v)
    THEN [k \in {key \in DOMAIN v : v[key] # Undefined} |-> JSONStringify(v[k])]
    ELSE IF IsArray(v)
    THEN Arr([i \in DOMAIN v.items |->
                 IF v.items[i] = Undefined THEN Null ELSE JSONStringify(v.items[i])])
    ELSE v

\* `data: ${payload}\n\n`
SSE(payload) == [prefix |-> "data: ", payload |-> payload, suffix |-> "\n\n"]

DoneEvent == SSE([raw |-> "[DONE]"])

----------------------------------------------------------------------------
(* The slicing loop: for (let i = 0; i < s.length; i += 500) s.slice(i, i + 500) *)

ChunkSize == 500

\* SliceFrom with the step one short of the window: i += 499
RECURSIVE SliceFromOverlap(_, _)
SliceFromOverlap(s, i) ==
    IF i < Len(s)
    THEN <<JSSlice(s, i, i + ChunkSize)>> \o SliceFromOverlap(s, i + ChunkSize - 1)
    ELSE <<>>

RECURSIVE SliceFrom(_, _)
SliceFrom(s, i) ==
    IF i < Len(s)
    THEN <<JSSlice(s, i, i + ChunkSize)>> \o SliceFrom(s, i + ChunkSize)
    ELSE <<>>

\* Slices with the loop test i <= s.length
RECURSIVE SliceFromInclusive(_, _)
SliceFromInclusive(s, i) ==
    IF i <= Len(s)
    THEN <<JSSlice(s, i, i + ChunkSize)>> \o SliceFromInclusive(s, i + ChunkSize)
    ELSE <<>>

SlicesInclusive(s) == SliceFromInclusive(s, 0)

Slices(s) == SliceFrom(s, 0)

----------------------------------------------------------------------------
(* The envelope. *)

ANTHROPIC == Lit("anthropic")

\* let total_tokens; if (prompt_tokens && completion_tokens) total_tokens = ...
TotalTokens(prompt_tokens, completion_tokens) ==
    IF Truthy(prompt_tokens) /\ Truthy(completion_tokens)
    THEN Num(prompt_tokens.value + completion_tokens.value)
    ELSE Undefined

ShouldSendCacheUsage(prov, usage) ==
    /\ prov = ANTHROPIC
    /\ \/ IsInteger(Get(usage, "cache_read_input_tokens"))
       \/ IsInteger(Get(usage, "cache_creation_input_tokens"))

\* {...a, ...b}
Assign(a, b) == b @@ a

UsageObject(prov, usage) ==
    LET prompt_tokens == Get(usage, "prompt_tokens")
        completion_tokens == Get(usage, "completion_tokens")
        total_tokens == TotalTokens(prompt_tokens, completion_tokens)
        num_search_queries == Get(usage, "num_search_queries")
        p1 == SpreadIf(completion_tokens, [completion_tokens |-> completion_tokens])
        p2 == SpreadIf(prompt_tokens, [prompt_tokens |-> prompt_tokens])
        p3 == SpreadIf(total_tokens, [total_tokens |-> total_tokens])
        p4 == IF ShouldSendCacheUsage(prov, usage)
              THEN [cache_read_input_tokens |-> Get(usage, "cache_read_input_tokens"),
                    cache_creation_input_tokens |->
                        Get(usage, "cache_creation_input_tokens")]
              ELSE EmptyObject
        p5 == SpreadIf(num_search_queries, [num_search_queries |-> num_search_queries])
    IN  Assign(Assign(Assign(Assign(p1, p2), p3), p4), p5)

StreamChunkTemplate(resp, prov, now) ==
    LET usage == Or(Get(resp, "usage"), EmptyObject)
        citations == Get(resp, "citations")
    IN  Assign([id |-> Get(resp, "id"),
                object |-> Lit("chat.completion.chunk"),
                created |-> Num(now),
                model |-> Or(Get(resp, "model"), EmptyString),
                system_fingerprint |-> Or(Get(resp, "system_fingerprint"), Null),
                provider |-> prov,
                usage |-> UsageObject(prov, usage)],
               SpreadIf(citations, [citations |-> citations]))

\* `data: ${JSON.stringify({...streamChunkTemplate, choices: [entry]})}\n\n`
Chunk(entry) ==
    SSE([json |-> JSONStringify(Assign(streamChunkTemplate,
                                       [choices |-> Arr(<<entry>>)]))])

----------------------------------------------------------------------------
(* The chunks of one choice. *)

RECURSIVE Flatten(_)
Flatten(seqs) == IF seqs = <<>> THEN <<>> ELSE Head(seqs) \o Flatten(Tail(seqs))

TextChunk(i, contentBlockIndex, content) ==
    Chunk([index |-> Num(i),
           delta |-> [role |-> Lit("assistant"),
                      content |-> Str(content),
                      content_blocks |->
                          Arr(<<[index |-> Num(contentBlockIndex),
                                 delta |-> [text |-> Str(content)]]>>)]])

ThinkingChunk(i, contentBlockIndex, thinking) ==
    Chunk([index |-> Num(i),
           delta |-> [role |-> Lit("assistant"),
                      content_blocks |->
                          Arr(<<[index |-> Num(contentBlockIndex),
                                 delta |-> [thinking |-> Str(thinking)]]>>)]])

SignatureChunk(i, contentBlockIndex, signature) ==
    Chunk([index |-> Num(i),
           delta |-> [role |-> Lit("assistant"),
                      content_blocks |->
                          Arr(<<[index |-> Num(contentBlockIndex),
                                 delta |-> [signature |-> signature]]>>)]])

DataChunk(i, contentBlockIndex, data) ==
    Chunk([index |-> Num(i),
           delta |-> [role |-> Lit("assistant"),
                      content_blocks |->
                          Arr(<<[index |-> Num(contentBlockIndex),
                                 delta |-> [data |-> Str(data)]]>>)]])

\* the body of the loop over content_blocks.entries()
ContentBlockChunks(i, contentBlockIndex, contentBlock) ==
    LET contentBlockDelta == Delete(contentBlock, "type")
        text == Get(contentBlockDelta, "text")
        thinking == Get(contentBlockDelta, "thinking")
        data == Get(contentBlockDelta, "data")
    IN  IF Truthy(text)
        THEN LET sl == Slices(text.value)
             IN  [n \in 1..Len(sl) |-> TextChunk(i, contentBlockIndex, sl[n])]
        ELSE IF Truthy(thinking)
        THEN LET sl == Slices(thinking.value)
             IN  [n \in 1..Len(sl) |-> ThinkingChunk(i, contentBlockIndex, sl[n])]
                 \o <<SignatureChunk(i, contentBlockIndex,
                                     Get(contentBlockDelta, "signature"))>>
        ELSE IF Truthy(data)
        THEN LET sl == Slices(data.value)
             IN  [n \in 1..Len(sl) |-> DataChunk(i, contentBlockIndex, sl[n])]
        ELSE <<>>

\* if (choice.message?.content_blocks) for (... of content_blocks.entries())
AllContentBlockChunks(i, choice) ==
    LET content_blocks == Get(Get(choice, "message"), "content_blocks")
    IN  IF Truthy(content_blocks)
        THEN Flatten([b \in 1..Len(content_blocks.items) |->
                         ContentBlockChunks(i, b - 1, content_blocks.items[b])])
        ELSE <<>>

\* ToolCallChunks with the arguments sliced like a text
ToolCallChunksSliced(i, toolCallIndex, toolCall) ==
    LET toolCallNameChunk ==
            [index |-> Num(toolCallIndex),
             id |-> Get(toolCall, "id"),
             type |-> Lit("function"),
             function |-> [name |-> Get(Get(toolCall, "function"), "name"),
                           arguments |-> EmptyString]]
        sl == Slices(Get(Get(toolCall, "function"), "arguments").value)
    IN  <<Chunk([index |-> Num(i),
                 delta |-> [role |-> Lit("assistant"),
                            content |-> Null,
                            tool_calls |-> Arr(<<toolCallNameChunk>>)]])>>
        \o [n \in 1..Len(sl) |->
               Chunk([index |-> Num(i),
                      delta |-> [role |-> Lit("assistant"),
                                 tool_calls |->
                                     Arr(<<[index |-> Num(toolCallIndex),
                                            function |-> [arguments |-> Str(sl[n])]]>>)]])]

\* the body of the loop over tool_calls.entries()
ToolCallChunks(i, toolCallIndex, toolCall) ==
    LET toolCallNameChunk ==
            [index |-> Num(toolCallIndex),
             id |-> Get(toolCall, "id"),
             type |-> Lit("function"),
             function |-> [name |-> Get(Get(toolCall, "function"), "name"),
                           arguments |-> EmptyString]]
        toolCallArgumentChunk ==
            [index |-> Num(toolCallIndex),
             function |-> [arguments |-> Get(Get(toolCall, "function"), "arguments")]]
    IN  <<Chunk([index |-> Num(i),
                 delta |-> [role |-> Lit("assistant"),
                            content |-> Null,
                            tool_calls |-> Arr(<<toolCallNameChunk>>)]]),
          Chunk([index |-> Num(i),
                 delta |-> [role |-> Lit("assistant"),
                            tool_calls |-> Arr(<<toolCallArgumentChunk>>)]])>>

\* if (choice.message && choice.message.tool_calls && choice.message.tool_calls.length)
AllToolCallChunks(i, choice) ==
    LET message == Get(choice, "message")
        tool_calls == Get(message, "tool_calls")
    IN  IF Truthy(message) /\ Truthy(tool_calls) /\ Len(tool_calls.items) # 0
        THEN Flatten([t \in 1..Len(tool_calls.items) |->
                         ToolCallChunks(i, t - 1, tool_calls.items[t])])
        ELSE <<>>

\* FlatContentGuard without the test of content_blocks
FlatContentGuardIgnoringBlocks(choice) ==
    LET message == Get(choice, "message")
        content == Get(message, "content")
    IN  /\ Truthy(message)
        /\ Truthy(content)
        /\ IsString(content)

\* if (choice.message && choice.message.content &&
\*     typeof choice.message.content === 'string' && !choice.message.content_blocks)
FlatContentGuard(choice) ==
    LET message == Get(choice, "message")
        content == Get(message, "content")
    IN  /\ Truthy(message)
        /\ Truthy(content)
        /\ IsString(content)
        /\ ~Truthy(Get(message, "content_blocks"))

FlatContentChunk(i, choice, word) ==
    LET groundingMetadata == Get(choice, "groundingMetadata")
    IN  Chunk(Assign([index |-> Num(i),
                      delta |-> [role |-> Lit("assistant"), content |-> Str(word)]],
                     SpreadIf(groundingMetadata,
                              [groundingMetadata |-> groundingMetadata])))

AllFlatContentChunks(i, choice) ==
    IF FlatContentGuard(choice)
    THEN LET inidividualWords == Slices(Get(Get(choice, "message"), "content").value)
         IN  [n \in 1..Len(inidividualWords) |->
                 FlatContentChunk(i, choice, inidividualWords[n])]
    ELSE <<>>

FinishChunk(i, choice) ==
    Chunk([index |-> Num(i),
           delta |-> EmptyObject,
           finish_reason |-> Get(choice, "finish_reason")])

\* Push at the front of the array: streamChunkArray.unshift(...chunks)
PushFront(array, chunks) == chunks \o array

\* streamChunkArray.push(...chunks)
Push(array, chunks) == array \o chunks

----------------------------------------------------------------------------
(* The inputs: responses of the shape of OpenAIChatCompleteResponse. *)

\* a string of n characters; position k holds the character code (k + seed) % 7,
\* so that no two windows of ChunkSize characters are equal
MkStr(n, seed) == [k \in 1..n |-> (k + seed) % 7]

Lens ==
    {0, 1} \cup {k * ChunkSize : k \in 1..MaxSlices}
           \cup {k * ChunkSize + 1 : k \in 1..MaxSlices}

ShortLens == {0, 1}

TextBlock(s) == [type |-> Lit("text"), text |-> s]
ThinkingBlock(s) == [type |-> Lit("thinking"), thinking |-> s]
SignedThinkingBlock(s) ==
    [type |-> Lit("thinking"), thinking |-> s, signature |-> Lit("sig")]
DataBlock(s) == [type |-> Lit("data"), data |-> s]

BlocksOf(lens) ==
    UNION {{TextBlock(Str(MkStr(n, 0))), ThinkingBlock(Str(MkStr(n, 1))),
            SignedThinkingBlock(Str(MkStr(n, 2))), DataBlock(Str(MkStr(n, 3)))}
           : n \in lens}

ShortBlocks == BlocksOf(ShortLens) \ {ThinkingBlock(Str(MkStr(0, 1))), DataBlock(Str(MkStr(0, 3)))}

SeqsUpTo(S, n) == UNION {[1..m -> S] : m \in 0..n}

ToolCall(t, argLen) ==
    [id |-> Str(<<t>>),
     type |-> Lit("function"),
     function |-> [name |-> Str(<<t, t>>), arguments |-> Str(MkStr(argLen, t))]]

ToolCallLists(argLens) ==
    UNION {{[t \in 1..m |-> ToolCall(t, lens[t])] : lens \in [1..m -> argLens]}
           : m \in 0..MaxToolCalls}

\* an object with the properties of obj that are not undefined
Object(obj) == [k \in {key \in DOMAIN obj : obj[key] # Undefined} |-> obj[k]]

Message(content, content_blocks, tool_calls) ==
    Object([role |-> Lit("assistant"), content |-> content,
            content_blocks |-> content_blocks, tool_calls |-> tool_calls])

Choice(i, message, finish_reason, groundingMetadata) ==
    Object([index |-> Num(i), message |-> message, finish_reason |-> finish_reason,
            groundingMetadata |-> groundingMetadata])

Response(choices, usage, meta) ==
    Assign(Object([id |-> Lit("chatcmpl-1"), object |-> Lit("chat.completion"),
                   choices |-> Arr(choices), usage |-> usage]),
           meta)

FullMeta ==
    [model |-> Lit("gpt-4o"), system_fingerprint |-> Lit("fp_1"),
     citations |-> Arr(<<Lit("https://example.com")>>)]

PlainUsage == [prompt_tokens |-> Num(3), completion_tokens |-> Num(5)]

OneChoice(message) ==
    Response(<<Choice(0, message, Lit("stop"), Undefined)>>, PlainUsage, FullMeta)

\* one choice; content blocks, tool calls and flat content in every combination
StructureResponses ==
    {OneChoice(Message(content, content_blocks, tool_calls)) :
        content \in {Undefined, Str(MkStr(3, 4))},
        content_blocks \in {Undefined} \cup {Arr(bs) : bs \in SeqsUpTo(ShortBlocks, MaxBlocks)},
        tool_calls \in {Undefined} \cup {Arr(ts) : ts \in ToolCallLists({2})}}

\* one choice; one block, or the flat content, of every length in Lens
SliceResponses ==
    {OneChoice(Message(Undefined, Arr(pre \o <<b>>), Undefined)) :
        pre \in {<<>>, <<TextBlock(Str(MkStr(1, 5)))>>}, b \in BlocksOf(Lens)}
    \cup
    {Response(<<Choice(0, Message(Str(MkStr(n, 4)), Undefined, Undefined), Lit("stop"), g)>>,
              PlainUsage, FullMeta) :
        n \in Lens, g \in {Undefined, [webSearchQueries |-> Arr(<<>>)]}}

\* one choice; tool calls with short and long arguments
ToolCallResponses ==
    {OneChoice(Message(Null, Undefined, Arr(ts))) :
        ts \in ToolCallLists({0, ChunkSize + 1})}

\* one choice; the flat content against the content blocks
FlatContentResponses ==
    {OneChoice(Message(content, content_blocks, Undefined)) :
        content \in {Undefined, Null, EmptyString, Str(MkStr(3, 4)),
                     Str(MkStr(ChunkSize + 1, 4)), Arr(<<[type |-> Lit("text")]>>)},
        content_blocks \in {Undefined, Arr(<<>>), Arr(<<TextBlock(Str(MkStr(2, 0)))>>),
                            Arr(<<TextBlock(EmptyString)>>)}}

\* 0..MaxChoices choices
SomeChoices ==
    {Object([index |-> Num(0), finish_reason |-> Lit("stop")]),
     Choice(0, Message(Undefined, Undefined, Undefined), Undefined, Undefined),
     Choice(0, Message(Str(MkStr(3, 4)), Undefined, Undefined), Lit("stop"), Undefined),
     Choice(0, Message(Null,
                       Arr(<<SignedThinkingBlock(Str(MkStr(2, 2))), TextBlock(Str(MkStr(1, 0)))>>),
                       Arr(<<ToolCall(1, 2)>>)),
            Lit("tool_calls"), Undefined),
     Choice(0, Message(Null, Undefined, Arr(<<ToolCall(1, 2)>>)), Lit("tool_calls"), Undefined)}

ChoicesResponses ==
    {Response([i \in DOMAIN cs |-> Assign(cs[i], [index |-> Num(i - 1)])],
              PlainUsage, FullMeta) :
        cs \in SeqsUpTo(SomeChoices, MaxChoices)}

\* one choice; the usage and the other fields of the envelope
Usages ==
    {Undefined} \cup
    {Object([prompt_tokens |-> p, completion_tokens |-> c,
             cache_read_input_tokens |-> r, cache_creation_input_tokens |-> w,
             num_search_queries |-> q]) :
        p \in {Undefined, Num(0), Num(3)}, c \in {Undefined, Num(0), Num(5)},
        r \in {Undefined, Num(0), Num(7)}, w \in {Undefined, Num(0)},
        q \in {Undefined, Num(1)}}

UsageResponses ==
    {Response(<<Choice(0, Message(Str(MkStr(3, 4)), Undefined, Undefined),
                       Lit("stop"), Undefined)>>, usage, meta) :
        usage \in Usages, meta \in {EmptyObject, FullMeta}}

Responses ==
    StructureResponses \cup SliceResponses \cup ToolCallResponses
        \cup FlatContentResponses \cup ChoicesResponses \cup UsageResponses

Providers == {Lit("openai"), ANTHROPIC}

Clock == {1762300800}

----------------------------------------------------------------------------
(* The function, section by section. *)

choices == response.choices.items

\* for (const [index, choice] of choices.entries()): the section that follows
\* the processing of choice i - 1
LoopAt(i) == IF i < Len(choices) THEN "content_blocks" ELSE "done"

Init ==
    /\ response \in Responses
    /\ provider \in IF response \in UsageResponses THEN Providers ELSE {Lit("openai")}
    /\ streamChunkTemplate = EmptyObject
    /\ streamChunkArray = <<>>
    /\ index = 0
    /\ pc = "template"

\* lines 152-190
BuildTemplate ==
    /\ pc = "template"
    /\ \E now \in Clock :
           streamChunkTemplate' = StreamChunkTemplate(response, provider, now)
    /\ pc' = LoopAt(0)
    /\ UNCHANGED <<response, provider, streamChunkArray, index>>

\* lines 193-301
EmitContentBlocks ==
    /\ pc = "content_blocks"
    /\ streamChunkArray' =
           Push(streamChunkArray, AllContentBlockChunks(index, choices[index + 1]))
    /\ pc' = "tool_calls"
    /\ UNCHANGED <<response, provider, streamChunkTemplate, index>>

\* lines 303-360
EmitToolCalls ==
    /\ pc = "tool_calls"
    /\ streamChunkArray' =
           Push(streamChunkArray, AllToolCallChunks(index, choices[index + 1]))
    /\ pc' = "content"
    /\ UNCHANGED <<response, provider, streamChunkTemplate, index>>

\* lines 362-391
EmitFlatContent ==
    /\ pc = "content"
    /\ streamChunkArray' =
           Push(streamChunkArray, AllFlatContentChunks(index, choices[index + 1]))
    /\ pc' = "finish"
    /\ UNCHANGED <<response, provider, streamChunkTemplate, index>>

\* EmitFinish with the finish event left out for a choice without a message
EmitFinishIfMessage ==
    /\ pc = "finish"
    /\ streamChunkArray' =
           IF Truthy(Get(choices[index + 1], "message"))
           THEN Push(streamChunkArray, <<FinishChunk(index, choices[index + 1])>>)
           ELSE streamChunkArray
    /\ index' = index + 1
    /\ pc' = LoopAt(index + 1)
    /\ UNCHANGED <<response, provider, streamChunkTemplate>>

\* lines 393-405
EmitFinish ==
    /\ pc = "finish"
    /\ streamChunkArray' =
           Push(streamChunkArray, <<FinishChunk(index, choices[index + 1])>>)
    /\ index' = index + 1
    /\ pc' = LoopAt(index + 1)
    /\ UNCHANGED <<response, provider, streamChunkTemplate>>

\* EmitDone with the sentinel left out of an array that is still empty
EmitDoneUnlessEmpty ==
    /\ pc = "done"
    /\ streamChunkArray' =
           IF streamChunkArray = <<>>
           THEN streamChunkArray
           ELSE Push(streamChunkArray, <<DoneEvent>>)
    /\ pc' = "returned"
    /\ UNCHANGED <<response, provider, streamChunkTemplate, index>>

\* lines 407-408
EmitDone ==
    /\ pc = "done"
    /\ streamChunkArray' = Push(streamChunkArray, <<DoneEvent>>)
    /\ pc' = "returned"
    /\ UNCHANGED <<response, provider, streamChunkTemplate, index>>

Next ==
    \/ BuildTemplate
    \/ EmitContentBlocks
    \/ EmitToolCalls
    \/ EmitFlatContent
    \/ EmitFinish
    \/ EmitDone

Spec == Init /\ [][Next]_vars

----------------------------------------------------------------------------
(* Reading the returned array: each chunk is parsed back (JSON.parse of the   *)
(* payload) and related to the response it was made from.                     *)

Returned == pc = "returned"

IsJson(ev) == "json" \in DOMAIN ev.payload
Entry(ev) == ev.payload.json.choices.items[1]
Delta(ev) == Entry(ev).delta
ChoiceOf(ev) == Entry(ev).index.value

InChoice(ev, i) == IsJson(ev) /\ ChoiceOf(ev) = i
IsFinishEvent(ev) == IsJson(ev) /\ DOMAIN Delta(ev) = {}
IsBlockEvent(ev) == IsJson(ev) /\ "content_blocks" \in DOMAIN Delta(ev)
IsToolEvent(ev) == IsJson(ev) /\ "tool_calls" \in DOMAIN Delta(ev)
IsFlatEvent(ev) ==
    /\ IsJson(ev)
    /\ "content" \in DOMAIN Delta(ev)
    /\ "content_blocks" \notin DOMAIN Delta(ev)
    /\ "tool_calls" \notin DOMAIN Delta(ev)

BlockPart(ev) == Delta(ev).content_blocks.items[1]

\* the events of content block b of choice i whose block delta has the key
BlockEvents(i, b, key) ==
    SelectSeq(streamChunkArray,
              LAMBDA ev : /\ InChoice(ev, i)
                          /\ IsBlockEvent(ev)
                          /\ BlockPart(ev).index.value = b
                          /\ key \in DOMAIN BlockPart(ev).delta)

\* every event of content block b of choice i
AllBlockEvents(i, b) ==
    SelectSeq(streamChunkArray,
              LAMBDA ev : /\ InChoice(ev, i)
                          /\ IsBlockEvent(ev)
                          /\ BlockPart(ev).index.value = b)

FlatEvents(i) ==
    SelectSeq(streamChunkArray, LAMBDA ev : InChoice(ev, i) /\ IsFlatEvent(ev))

Positions(i, Test(_)) ==
    {k \in 1..Len(streamChunkArray) :
        InChoice(streamChunkArray[k], i) /\ Test(streamChunkArray[k])}

ChoiceIndices == 0..(Len(choices) - 1)
MessageAt(i) == Get(choices[i + 1], "message")
InputBlocks(i) ==
    LET cb == Get(MessageAt(i), "content_blocks")
    IN  IF IsArray(cb) THEN cb.items ELSE <<>>
InputToolCalls(i) ==
    LET tc == Get(MessageAt(i), "tool_calls")
    IN  IF IsArray(tc) THEN tc.items ELSE <<>>
BlockIndices(i) == 0..(Len(InputBlocks(i)) - 1)
Kind(block) == block.type.lit
Field(block) == block[Kind(block)].value

CeilDiv(a, b) == (a + b - 1) \div b

----------------------------------------------------------------------------
\* C1: the returned array ends with the sentinel `data: [DONE]\n\n`, the
\* sentinel occurs exactly once in it, and with zero choices it is the only
\* element.
C1_SentinelLastOnce ==
    Returned =>
        /\ Len(streamChunkArray) >= 1
        /\ streamChunkArray[Len(streamChunkArray)] = DoneEvent
        /\ Cardinality({k \in 1..Len(streamChunkArray) :
                           streamChunkArray[k] = DoneEvent}) = 1
        /\ \A k \in 1..Len(streamChunkArray) :
               ~IsJson(streamChunkArray[k]) => streamChunkArray[k] = DoneEvent
        /\ Len(choices) = 0 => streamChunkArray = <<DoneEvent>>

C1_Witness ==
    /\ Returned
    /\ Len(choices) = 0
    /\ streamChunkArray = <<DoneEvent>>

\* C2: every choice has exactly one finish event (delta = {}), its
\* finish_reason is the choice's, and there are as many finish events as
\* choices; a choice without content, content blocks and tool calls has the
\* finish event and nothing else.
C2_OneFinishPerChoice ==
    Returned =>
        /\ \A i \in ChoiceIndices :
               /\ Cardinality(Positions(i, IsFinishEvent)) = 1
               /\ \A k \in Positions(i, IsFinishEvent) :
                      Get(Entry(streamChunkArray[k]), "finish_reason")
                          = Get(choices[i + 1], "finish_reason")
        /\ Cardinality({k \in 1..Len(streamChunkArray) :
                           IsFinishEvent(streamChunkArray[k])}) = Len(choices)

C2_Witness ==
    /\ Returned
    /\ Len(choices) = 2
    /\ MessageAt(1) = Undefined
    /\ Cardinality(Positions(1, LAMBDA ev : TRUE)) = 1
    /\ Cardinality(Positions(1, IsFinishEvent)) = 1

\* C3: among the events of one choice, every content-block event precedes
\* every tool-call event, every content-block and tool-call event precedes
\* the finish event, and no event of the choice follows its finish event.
C3_SectionOrder ==
    \A i \in ChoiceIndices :
        /\ \A a \in Positions(i, IsBlockEvent) :
               \A b \in Positions(i, IsToolEvent) : a < b
        /\ \A f \in Positions(i, IsFinishEvent) :
               \A a \in Positions(i, LAMBDA ev : TRUE) : a <= f

C3_Witness ==
    /\ Returned
    /\ \E i \in ChoiceIndices :
           /\ Cardinality(Positions(i, IsBlockEvent)) >= 2
           /\ Cardinality(Positions(i, IsToolEvent)) >= 2
           /\ Cardinality(Positions(i, IsFinishEvent)) = 1

\* C4: for a content block of kind text, thinking or data, the payloads of
\* the block's events, concatenated in the order of the array, are the
\* block's string.
C4_RoundTrip ==
    Returned =>
        \A i \in ChoiceIndices : \A b \in BlockIndices(i) :
            LET block == InputBlocks(i)[b + 1]
                evs == BlockEvents(i, b, Kind(block))
            IN  Flatten([n \in 1..Len(evs) |->
                            BlockPart(evs[n]).delta[Kind(block)].value])
                    = Field(block)

C4_Witness ==
    /\ Returned
    /\ \E i \in ChoiceIndices : \E b \in BlockIndices(i) :
           /\ Len(Field(InputBlocks(i)[b + 1])) = 2 * ChunkSize + 1
           /\ Len(BlockEvents(i, b, Kind(InputBlocks(i)[b + 1]))) = 3

SliceLengthsOk(lens, L) ==
    /\ Len(lens) = CeilDiv(L, ChunkSize)
    /\ \A n \in 1..Len(lens) : lens[n] <= ChunkSize
    /\ \A n \in 1..(Len(lens) - 1) : lens[n] = ChunkSize

\* C5: a text, thinking or data field of length L > 0, and a flat content of
\* length L > 0 that the fallback emits, gives ceil(L / 500) slice events,
\* every slice of at most 500 characters and all but the last of exactly 500.
C5_SliceCount ==
    Returned =>
        \A i \in ChoiceIndices :
            /\ \A b \in BlockIndices(i) :
                   LET block == InputBlocks(i)[b + 1]
                       evs == BlockEvents(i, b, Kind(block))
                   IN  Len(Field(block)) > 0 =>
                           SliceLengthsOk(
                               [n \in 1..Len(evs) |->
                                   Len(BlockPart(evs[n]).delta[Kind(block)].value)],
                               Len(Field(block)))
            /\ LET content == Get(MessageAt(i), "content")
                   evs == FlatEvents(i)
               IN  (/\ IsString(content)
                    /\ Len(content.value) > 0
                    /\ Get(MessageAt(i), "content_blocks") = Undefined) =>
                       SliceLengthsOk(
                           [n \in 1..Len(evs) |-> Len(Delta(evs[n]).content.value)],
                           Len(content.value))

C5_Witness ==
    /\ Returned
    /\ \E i \in ChoiceIndices :
           /\ Get(MessageAt(i), "content_blocks") = Undefined
           /\ IsString(Get(MessageAt(i), "content"))
           /\ Len(Get(MessageAt(i), "content").value) = 2 * ChunkSize
           /\ Len(FlatEvents(i)) = 2

\* C6 as stated: a text block whose text has a length from 0 through 500
\* gives exactly one slice event.
C6_Original ==
    Returned =>
        \A i \in ChoiceIndices : \A b \in BlockIndices(i) :
            LET block == InputBlocks(i)[b + 1]
            IN  (Kind(block) = "text" /\ Len(Field(block)) <= ChunkSize) =>
                    Len(AllBlockEvents(i, b)) = 1

\* C6 amended: a text block whose text has a length from 1 through 500 gives
\* exactly one slice event, which carries the whole text; a text block whose
\* text is empty gives no event.
C6_OneSliceUnlessEmpty ==
    Returned =>
        \A i \in ChoiceIndices : \A b \in BlockIndices(i) :
            LET block == InputBlocks(i)[b + 1]
                evs == AllBlockEvents(i, b)
            IN  Kind(block) = "text" =>
                    /\ Len(Field(block)) = 0 => Len(evs) = 0
                    /\ Len(Field(block)) \in 1..ChunkSize =>
                           /\ Len(evs) = 1
                           /\ BlockPart(evs[1]).delta = [text |-> Str(Field(block))]
                           /\ Delta(evs[1]).content = Str(Field(block))

C6_Witness ==
    /\ Returned
    /\ \E i \in ChoiceIndices : \E b \in BlockIndices(i) :
           /\ Kind(InputBlocks(i)[b + 1]) = "text"
           /\ Len(Field(InputBlocks(i)[b + 1])) = 0
           /\ Len(AllBlockEvents(i, b)) = 0

IsSignatureEvent(ev) ==
    IsBlockEvent(ev) /\ DOMAIN BlockPart(ev).delta \subseteq {"signature"}

\* C7: every thinking block, also one without a signature and one whose
\* thinking string is empty, gives exactly one signature event, placed right
\* after the block's last thinking slice event; text and data blocks give no
\* signature event.
C7_SignatureEvent ==
    Returned =>
        \A i \in ChoiceIndices : \A b \in BlockIndices(i) :
            LET block == InputBlocks(i)[b + 1]
                sig == {k \in Positions(i, IsSignatureEvent) :
                           BlockPart(streamChunkArray[k]).index.value = b}
                thk == {k \in Positions(i, IsBlockEvent) :
                           /\ BlockPart(streamChunkArray[k]).index.value = b
                           /\ "thinking" \in DOMAIN BlockPart(streamChunkArray[k]).delta}
            IN  IF Kind(block) = "thinking"
                THEN /\ Cardinality(sig) = 1
                     /\ \A s \in sig :
                            /\ Get(BlockPart(streamChunkArray[s]).delta, "signature")
                                   = Get(block, "signature")
                            /\ \A k \in thk : k < s
                            /\ thk # {} => s - 1 \in thk
                ELSE sig = {}

\* C8: a message with n > 0 tool calls gives 2n tool-call events, one after
\* the other: for each tool call in input order the name event and then the
\* event with the whole arguments string.
C8_ToolCallPairs ==
    Returned =>
        \A i \in ChoiceIndices :
            LET calls == InputToolCalls(i)
                evs == SelectSeq(streamChunkArray,
                                 LAMBDA ev : InChoice(ev, i) /\ IsToolEvent(ev))
                pos == Positions(i, IsToolEvent)
            IN  /\ Len(evs) = 2 * Len(calls)
                /\ \A k \in pos : k + 1 \in pos \/ \A m \in pos : m <= k
                /\ \A t \in 1..Len(calls) :
                       /\ Delta(evs[2 * t - 1]) =
                              [role |-> Lit("assistant"),
                               content |-> Null,
                               tool_calls |->
                                   Arr(<<[index |-> Num(t - 1),
                                          id |-> calls[t].id,
                                          type |-> Lit("function"),
                                          function |->
                                              [name |-> calls[t].function.name,
                                               arguments |-> EmptyString]]>>)]
                       /\ Delta(evs[2 * t]) =
                              [role |-> Lit("assistant"),
                               tool_calls |->
                                   Arr(<<[index |-> Num(t - 1),
                                          function |->
                                              [arguments |->
                                                  calls[t].function.arguments]]>>)]

C8_Witness ==
    /\ Returned
    /\ \E i \in ChoiceIndices :
           /\ Len(InputToolCalls(i)) = 2
           /\ \A t \in 1..2 :
                  Len(InputToolCalls(i)[t].function.arguments.value) > ChunkSize
           /\ Cardinality(Positions(i, IsToolEvent)) = 4

\* C9: the usage of every event has total_tokens if and only if the input
\* usage has both prompt_tokens and completion_tokens (0 being a value that is
\* present), and total_tokens is then their sum.
C9_TotalTokens ==
    \A k \in 1..Len(streamChunkArray) :
        IsJson(streamChunkArray[k]) =>
            LET usage == streamChunkArray[k].payload.json.usage
                p == Get(Get(response, "usage"), "prompt_tokens")
                c == Get(Get(response, "usage"), "completion_tokens")
            IN  /\ "total_tokens" \in DOMAIN usage
                       <=> (p # Undefined /\ c # Undefined)
                /\ "total_tokens" \in DOMAIN usage =>
                       usage.total_tokens = Num(p.value + c.value)

\* C10: a choice has flat-content events only if its message.content is a
\* non-empty string and its message has no content_blocks; with content_blocks
\* present, the empty list too, no event of the choice carries a slice of
\* message.content.
C10_FlatContentOnlyWithoutBlocks ==
    Returned =>
        \A i \in ChoiceIndices :
            LET content == Get(MessageAt(i), "content")
                content_blocks == Get(MessageAt(i), "content_blocks")
            IN  /\ Len(FlatEvents(i)) > 0 =>
                       /\ IsString(content)
                       /\ Len(content.value) > 0
                       /\ content_blocks = Undefined
                /\ content_blocks # Undefined =>
                       /\ Len(FlatEvents(i)) = 0
                       /\ \A k \in Positions(i, LAMBDA ev : "content" \in DOMAIN Delta(ev)) :
                              LET ev == streamChunkArray[k]
                              IN  \/ Delta(ev).content = Null
                                  \/ /\ IsBlockEvent(ev)
                                     /\ BlockPart(ev).delta = [text |-> Delta(ev).content]

C10_Witness ==
    /\ Returned
    /\ \E i \in ChoiceIndices :
           /\ IsString(Get(MessageAt(i), "content"))
           /\ Len(Get(MessageAt(i), "content").value) > 0
           /\ Get(MessageAt(i), "content_blocks") = Arr(<<>>)
           /\ Len(FlatEvents(i)) = 0

====
